---- MODULE Spec2Model ----
(***************************************************************************)
(* The retrieval-augmented chatbot of the MindCare site:                   *)
(*   chatbot/vector.py          VectorDB        (index load)               *)
(*   chatbot/chatbot_memory.py  ChatbotMemory   (ask: the conversational   *)
(*                              retrieval chain over a buffer memory)      *)
(*   pages/chatbot.py           ChatbotPage     (send_message, suggestions)*)
(*                                                                         *)
(* ask calls self.conversation, the ConversationalRetrievalChain built by  *)
(* from_llm(llm, retriever, memory).  One call of the chain reads the      *)
(* chat history from the memory, has the chat model rephrase the question  *)
(* when that history is not empty, embeds the question, searches the index *)
(* for the K nearest documents, has the chat model answer the prompt, and  *)
(* then saves the question and the answer to the memory.  An exception of  *)
(* any of these calls leaves ask at once.  send_message runs ask in a      *)
(* worker thread (asyncio.to_thread) and shows its outcome when it ends.   *)
(*                                                                         *)
(* Texts are sequences of tokens; the token " " is whitespace.             *)
(***************************************************************************)
EXTENDS Integers, Sequences, FiniteSets, TLC

VARIABLES
    index_on_disk,   \* what lies at INDEX_SAVE_PATH: NoIndex or the saved entries
    page,            \* ChatbotPage: "closed", "ready" (db and memory set), "init_failed"
    db,              \* VectorDB.db, the loaded FAISS index (None without a load)
    loads,           \* number of FAISS.load_local calls made so far
    notifications,   \* ui.notify / ui.notification calls still shown, in order
    message_input,   \* ChatbotPage.message_input.value
    chat_messages,   \* the bubbles of ChatbotPage.chat_messages, in order
    memory,          \* ConversationBufferMemory.chat_memory.messages
    memory2,         \* the same of the ChatbotMemory of a second session
    asks,            \* the calls of ChatbotMemory.ask, in call order
    theme_manager,   \* core/theme.py theme_manager: preference, system and current theme
    mindcare_app,    \* MindCareApp: its current_theme
    navbar,          \* Navbar: its current_theme and theme_preference
    storage_user,    \* app.storage.user of every user: the saved theme and language
    i18n,            \* core/i18n.py i18n: current_language, and what set_language returned last
    rendered,        \* per user, the lang and dir of the page render_page built last
    reports_page,    \* ReportsPage: reports, filters, filtered_reports, current_page
    wrapper          \* one call of a function decorated with retry_on_failure

chatVars == <<index_on_disk, page, db, loads, notifications, message_input,
              chat_messages, memory, memory2, asks>>

themeVars == <<theme_manager, mindcare_app, navbar>>

i18nVars == <<i18n, rendered>>

siteVars == <<themeVars, storage_user, i18nVars, reports_page, wrapper>>

vars == <<chatVars, siteVars>>

pageVars == <<page, db, loads, notifications, message_input, chat_messages>>

----------------------------------------------------------------------------
\* Bounds of the model

\* at most this many messages are sent, and ask calls made, in one behaviour
MaxCalls == 2

\* at most this many times is the chatbot page opened in one behaviour
MaxVisits == 2

\* what the user may type into the message input
UserTexts == { <<" ">>, <<"q1", " ">> }

\* the statement custom_template asks the chat model for when it does not know
NotInDocuments == << "je n'ai pas cette information dans mes documents" >>

\* the strings the language model may return as an answer: an answer of its
\* own making, or that statement
Answers == { <<"a1">>, NotInDocuments }

\* exceptions the Ollama client raises, from the embedding and the chat model alike
ProviderErrors == { "ConnectError", "ResponseError" }

----------------------------------------------------------------------------
\* Texts

RECURSIVE lstrip(_)
lstrip(s) ==
    IF s # <<>> /\ Head(s) = " " THEN lstrip(Tail(s)) ELSE s

RECURSIVE rstrip(_)
rstrip(s) ==
    IF s # <<>> /\ s[Len(s)] = " " THEN rstrip(SubSeq(s, 1, Len(s) - 1)) ELSE s

\* str.strip()
strip(s) ==
    rstrip(lstrip(s))

RECURSIVE AfterFirstSpace(_)
AfterFirstSpace(s) ==
    IF Head(s) = " " THEN Tail(s) ELSE AfterFirstSpace(Tail(s))

\* quick_suggestion: suggestion_text.split(' ', 1)[1] if ' ' in suggestion_text
clean_text(s) ==
    IF \E i \in 1..Len(s) : s[i] = " " THEN AfterFirstSpace(s) ELSE s

\* the quick suggestions of render_chat_interface (icon, space, words)
suggestions ==
    { <<"bulb", " ", "Conseils", " ", "bien-etre">> }

----------------------------------------------------------------------------
\* The vector index

NoIndex == "NoIndex"

\* the value of VectorDB.db while no index has been loaded
None == "None"

\* the entries create_index.py saved: a document text with its embedding
Corpus ==
    << [text |-> "doc1", vec |-> 0],
       [text |-> "doc2", vec |-> 2],
       [text |-> "doc3", vec |-> 3],
       [text |-> "doc4", vec |-> 6] >>

\* a saved index that holds no entry
EmptyIndex == << >>

\* a saved index of fewer than K entries, with one embedding twice
SmallIndex ==
    << [text |-> "doc5", vec |-> 3],
       [text |-> "doc6", vec |-> 3] >>

\* the indexes that may lie at INDEX_SAVE_PATH
SavedIndexes == { Corpus, EmptyIndex, SmallIndex }

\* search_kwargs={"k": 3}
K == 3

\* OllamaEmbeddings.embed_query: a deterministic map from a text to a vector
TokenVec(tok) ==
    CASE tok = "q1" -> 1
      [] tok = "q2" -> 5
      [] tok = "rq" -> 3
      [] tok = " "  -> 0
      [] OTHER      -> 2

RECURSIVE embed_query(_)
embed_query(s) ==
    IF s = <<>> THEN 0 ELSE TokenVec(Head(s)) + embed_query(Tail(s))

\* squared L2 distance of the flat index
Dist(u, v) ==
    (u - v) * (u - v)

\* entry i comes before entry j in a search for v: nearer, ties by insertion order
Before(index, v, i, j) ==
    \/ Dist(index[i].vec, v) < Dist(index[j].vec, v)
    \/ Dist(index[i].vec, v) = Dist(index[j].vec, v) /\ i < j

Rank(index, v, i) ==
    Cardinality({ j \in 1..Len(index) : Before(index, v, j, i) }) + 1

\* (mutant) the first k entries of the index, in insertion order
first_entries(index, v, k) ==
    LET n == IF Len(index) < k THEN Len(index) ELSE k
    IN  [ r \in 1..n |-> r ]

\* the flat L2 index searched for v: the positions of the k nearest entries,
\* nearest first
nearest(index, v, k) ==
    LET n == IF Len(index) < k THEN Len(index) ELSE k
    IN  [ r \in 1..n |-> CHOOSE i \in 1..Len(index) : Rank(index, v, i) = r ]

\* the retriever: FAISS similarity search, the documents of the k nearest entries
similarity_search(index, v, k) ==
    LET hits == nearest(index, v, k)
    IN  [ r \in 1..Len(hits) |-> index[hits[r]].text ]

----------------------------------------------------------------------------
\* The rest of the site, as MindCareApp() leaves it at start-up

\* core/theme.py: the values of Theme and of ThemePreference
LIGHT == "light"
DARK == "dark"
AUTO == "auto"
Theme == { LIGHT, DARK }
ThemePreference == { AUTO, LIGHT, DARK }

\* config/settings.py
default_language == "fr"
supported_languages == { "fr", "en", "ar" }

\* the users of the site: app.storage.user is the storage of the user whose
\* request is being served, and raises RuntimeError where there is no request
Users == { "u1", "u2" }
NoRequest == "no request"
Contexts == Users \cup { NoRequest }

\* a key that app.storage.user does not hold
Unset == "unset"

\* the storage of a user who has saved nothing yet
NoKeys ==
    [ theme |-> [ theme_preference |-> Unset, system_theme |-> Unset,
                  current_theme |-> Unset ],
      language |-> Unset ]

\* ThemeManager.__init__
ThemeManager_init ==
    [ theme_preference |-> AUTO, system_theme |-> LIGHT, current_theme |-> LIGHT ]

\* I18nManager.__init__: there is no request at import time, so load_language
\* ends in its except branch
I18nManager_init == [ current_language |-> default_language, returned |-> Unset ]

\* no ReportsPage has been constructed, no decorated function called
NoPage == [ constructed |-> FALSE ]
NoCall == [ pc |-> "idle" ]

\* MindCareApp.__init__: apply_theme loads the preferences without a request
\* and falls back to the constructor's values; the navbar gets the theme
SiteAtStart ==
    /\ theme_manager = ThemeManager_init
    /\ mindcare_app = [ current_theme |-> ThemeManager_init.current_theme ]
    /\ navbar = [ current_theme |-> ThemeManager_init.current_theme,
                  theme_preference |-> AUTO ]
    /\ storage_user = [ u \in Users |-> NoKeys ]
    /\ i18n = I18nManager_init
    /\ rendered = [ u \in Users |-> [ lang |-> Unset, dir |-> Unset ] ]
    /\ reports_page = NoPage
    /\ wrapper = NoCall

----------------------------------------------------------------------------
\* Initial state: the application is up, the chatbot page not yet opened

Init ==
    /\ index_on_disk \in { NoIndex, Corpus }
    /\ page = "closed"
    /\ db = None
    /\ loads = 0
    /\ notifications = <<>>
    /\ message_input = <<>>
    /\ chat_messages = <<>>
    /\ memory = <<>>
    /\ memory2 = <<>>
    /\ asks = <<>>
    /\ SiteAtStart

----------------------------------------------------------------------------
\* chatbot/vector.py

\* (mutant) VectorDB.__init__ without the os.path.exists check: load_local is
\* called on the missing path and fails while reading it
VectorDB_init_unchecked ==
    IF index_on_disk = NoIndex
    THEN [raised |-> "RuntimeError", db |-> None, load_calls |-> 1]
    ELSE [raised |-> "", db |-> index_on_disk, load_calls |-> 1]

\* VectorDB.__init__: the outcome of constructing a VectorDB
VectorDB_init ==
    IF index_on_disk = NoIndex
    THEN [raised |-> "FileNotFoundError", db |-> None, load_calls |-> 0]
    ELSE [raised |-> "", db |-> index_on_disk, load_calls |-> 1]

----------------------------------------------------------------------------
\* pages/chatbot.py

Notice(type, text) ==
    [type |-> type, text |-> text]

Bubble(sent, kind, body) ==
    [sent |-> sent, kind |-> kind, body |-> body]

\* (mutant) ChatbotPage.__init__ whose except branch does not dismiss the
\* loading notification
ChatbotPage_init_undismissed ==
    /\ page = "closed"
    /\ LET loading == Notice("loading", "Initialisation du modele")
           shown   == Append(notifications, loading)
           dismissed == SelectSeq(shown, LAMBDA n : n # loading)
           r == VectorDB_init
       IN  /\ loads' = loads + r.load_calls
           /\ IF r.raised = ""
              THEN /\ page' = "ready"
                   /\ db' = r.db
                   /\ notifications' =
                        Append(dismissed, Notice("positive", "Assistant pret"))
              ELSE /\ page' = "init_failed"
                   /\ db' = None
                   /\ notifications' =
                        Append(shown, Notice("negative", r.raised))
    /\ UNCHANGED <<siteVars, index_on_disk, message_input, chat_messages, memory,
                   memory2, asks>>

\* ChatbotPage.__init__ followed by render: the page is opened
ChatbotPage_init ==
    /\ page = "closed"
    /\ LET loading == Notice("loading", "Initialisation du modele")
           shown   == Append(notifications, loading)
           dismissed == SelectSeq(shown, LAMBDA n : n # loading)
           r == VectorDB_init
       IN  /\ loads' = loads + r.load_calls
           /\ IF r.raised = ""
              THEN /\ page' = "ready"
                   /\ db' = r.db
                   /\ notifications' =
                        Append(dismissed, Notice("positive", "Assistant pret"))
              ELSE /\ page' = "init_failed"
                   /\ db' = None
                   /\ notifications' =
                        Append(dismissed, Notice("negative", r.raised))
    /\ UNCHANGED <<siteVars, index_on_disk, message_input, chat_messages, memory,
                   memory2, asks>>

\* the user edits the message input
type_message(text) ==
    /\ page # "closed"
    /\ message_input # text
    /\ message_input' = text
    /\ UNCHANGED <<siteVars, index_on_disk, page, db, loads, notifications, chat_messages,
                   memory, memory2, asks>>

\* a call of ChatbotMemory.ask that has just been made (on the ChatbotMemory
\* of the first session, unless said otherwise)
NewAsk(query, bubble) ==
    [ question     |-> query,
      pc           |-> "called",
      chat_history |-> <<>>,
      new_question |-> <<>>,
      vector       |-> 0,
      docs         |-> <<>>,
      answer       |-> <<>>,
      result       |-> <<>>,
      error        |-> "",
      failed_at    |-> "",
      bubble       |-> bubble,
      shown        |-> FALSE,
      session      |-> "s1" ]

\* the text of the except branch of send_message
Apology(e) ==
    <<"Desole, une erreur est survenue. Veuillez reessayer.", e>>

\* (mutant) send_message that tests the message for emptiness without strip()
send_message_body_unstripped(user_message) ==
    IF user_message = <<>>
    THEN UNCHANGED <<message_input, chat_messages, asks>>
    ELSE LET spinner == Len(chat_messages) + 2
             shown == Append(chat_messages, Bubble(TRUE, "text", user_message))
         IN  /\ Len(chat_messages) < 2 * MaxCalls
             /\ message_input' = <<>>
             /\ IF page = "init_failed"
                THEN /\ chat_messages' = Append(shown,
                            Bubble(FALSE, "error", Apology("AttributeError")))
                     /\ asks' = asks
                ELSE /\ chat_messages' = Append(shown,
                            Bubble(FALSE, "spinner", <<>>))
                     /\ asks' = Append(asks, NewAsk(user_message, spinner))

\* ChatbotPage.send_message up to its await (or to its end when it never awaits),
\* reading user_message from the message input
send_message_body(user_message) ==
    IF strip(user_message) = <<>>
    THEN UNCHANGED <<message_input, chat_messages, asks>>
    ELSE LET spinner == Len(chat_messages) + 2
             shown == Append(chat_messages, Bubble(TRUE, "text", user_message))
         IN  /\ Len(chat_messages) < 2 * MaxCalls
             /\ message_input' = <<>>
             /\ IF page = "init_failed"
                THEN \* self.memory was never set: AttributeError inside the try
                     /\ chat_messages' = Append(shown,
                            Bubble(FALSE, "error", Apology("AttributeError")))
                     /\ asks' = asks
                ELSE /\ chat_messages' = Append(shown,
                            Bubble(FALSE, "spinner", <<>>))
                     /\ asks' = Append(asks, NewAsk(user_message, spinner))

\* the user clicks the send button or presses Enter in the input
send_message ==
    /\ page # "closed"
    /\ send_message_body(message_input)
    /\ UNCHANGED <<siteVars, index_on_disk, page, db, loads, notifications, memory,
                   memory2>>

\* ChatbotPage.quick_suggestion: the cleaned text is put into the input and an
\* Enter keydown is dispatched on it, which runs send_message
quick_suggestion(suggestion_text) ==
    /\ page # "closed"
    /\ send_message_body(clean_text(suggestion_text))
    /\ UNCHANGED <<siteVars, index_on_disk, page, db, loads, notifications, memory,
                   memory2>>

\* (mutant) send_message that calls ask once more when it has raised
send_message_resume_retrying(i) ==
    /\ asks[i].bubble # 0
    /\ ~asks[i].shown
    /\ asks[i].pc \in {"returned", "raised"}
    /\ IF asks[i].pc = "returned"
       THEN /\ chat_messages' =
                 [chat_messages EXCEPT ![asks[i].bubble] =
                    Bubble(FALSE, "markdown", asks[i].result)]
            /\ asks' = [asks EXCEPT ![i].shown = TRUE]
       ELSE /\ chat_messages' = chat_messages
            /\ asks' = [asks EXCEPT ![i] =
                          NewAsk(asks[i].question, asks[i].bubble)]
    /\ UNCHANGED <<siteVars, index_on_disk, page, db, loads, notifications, message_input,
                   memory, memory2>>

\* (mutant) send_message without its except branch: only an answer is shown
send_message_resume_unguarded(i) ==
    /\ asks[i].bubble # 0
    /\ ~asks[i].shown
    /\ asks[i].pc = "returned"
    /\ chat_messages' =
         [chat_messages EXCEPT ![asks[i].bubble] =
            Bubble(FALSE, "markdown", asks[i].result)]
    /\ asks' = [asks EXCEPT ![i].shown = TRUE]
    /\ UNCHANGED <<siteVars, index_on_disk, page, db, loads, notifications, message_input,
                   memory, memory2>>

\* send_message after its await: the thread of ask i has ended
send_message_resume(i) ==
    /\ asks[i].bubble # 0
    /\ ~asks[i].shown
    /\ asks[i].pc \in {"returned", "raised"}
    /\ chat_messages' =
         [chat_messages EXCEPT ![asks[i].bubble] =
            IF asks[i].pc = "returned"
            THEN Bubble(FALSE, "markdown", asks[i].result)
            ELSE Bubble(FALSE, "error", Apology(asks[i].error))]
    /\ asks' = [asks EXCEPT ![i].shown = TRUE]
    /\ UNCHANGED <<siteVars, index_on_disk, page, db, loads, notifications, message_input,
                   memory, memory2>>

----------------------------------------------------------------------------
\* chatbot/chatbot_memory.py
\* ChatbotMemory.ask runs self.conversation, the ConversationalRetrievalChain
\* that from_llm builds over llm, self.retriever and self.memory, in a worker
\* thread of its own: each step below is one call the chain makes.

\* messages of the buffer memory
HumanMessage(content) ==
    [type |-> "human", content |-> content]

AIMessage(content) ==
    [type |-> "ai", content |-> content]

\* (mutant) one memory held by the class and shared by every ChatbotMemory
class_memory(a) ==
    memory

\* self.memory of the ChatbotMemory that the call a was made on
self_memory(a) ==
    IF a.session = "s1" THEN memory ELSE memory2

\* chat_memory.add_message on that memory
add_message(a, message) ==
    IF a.session = "s1"
    THEN memory' = Append(memory, message) /\ memory2' = memory2
    ELSE memory2' = Append(memory2, message) /\ memory' = memory

\* what the chat model may return when asked to rephrase a follow-up question
\* (temperature 0.7: the question itself, or another wording of it)
Rephrasings(question, chat_history) ==
    { question, <<"rq">> }

\* what the chat model may answer to a prompt
ChatOllama(prompt) ==
    Answers

\* the locals of the chain are gone once it has its answer or has raised
Ended(a) ==
    [a EXCEPT !.chat_history = <<>>, !.new_question = <<>>, !.vector = 0,
              !.docs = <<>>, !.answer = <<>>]

\* the exception e leaves ask at the given stage
Raised(a, stage, e) ==
    [Ended(a) EXCEPT !.pc = "raised", !.error = e, !.failed_at = stage]

\* the chain loads chat_history from the memory; with an empty history the
\* question goes to the retriever as it is
load_memory_variables(i) ==
    /\ asks[i].pc = "called"
    /\ LET a == asks[i]
           chat_history == self_memory(a)
       IN  asks' = [asks EXCEPT ![i] =
                      IF chat_history = <<>>
                      THEN [a EXCEPT !.chat_history = chat_history,
                                     !.new_question = a.question,
                                     !.pc = "embedding"]
                      ELSE [a EXCEPT !.chat_history = chat_history,
                                     !.pc = "condensing"]]
    /\ UNCHANGED <<siteVars, index_on_disk, memory, memory2, pageVars>>

\* with a history, the chat model first rewrites the question (question_generator)
condense_question(i) ==
    /\ asks[i].pc = "condensing"
    /\ \/ \E nq \in Rephrasings(asks[i].question, asks[i].chat_history) :
            asks' = [asks EXCEPT ![i] =
                       [@ EXCEPT !.new_question = nq, !.pc = "embedding"]]
       \/ \E e \in ProviderErrors :
            asks' = [asks EXCEPT ![i] = Raised(@, "condensing", e)]
    /\ UNCHANGED <<siteVars, index_on_disk, memory, memory2, pageVars>>

\* (mutant) an embedding failure is swallowed and the chain goes on to the
\* generator without a context
embed_swallowing(i) ==
    /\ asks[i].pc = "embedding"
    /\ \/ asks' = [asks EXCEPT ![i] =
                     [@ EXCEPT !.vector = embed_query(asks[i].new_question),
                               !.pc = "retrieving"]]
       \/ asks' = [asks EXCEPT ![i].pc = "generating"]
    /\ UNCHANGED <<siteVars, index_on_disk, memory, memory2, pageVars>>

\* (mutant) the history is embedded along with the question
embed_with_history(i) ==
    /\ asks[i].pc = "embedding"
    /\ \/ asks' = [asks EXCEPT ![i] =
                     [@ EXCEPT !.vector = embed_query(asks[i].new_question)
                                            + Len(asks[i].chat_history),
                               !.pc = "retrieving"]]
       \/ \E e \in ProviderErrors :
            asks' = [asks EXCEPT ![i] = Raised(@, "embedding", e)]
    /\ UNCHANGED <<siteVars, index_on_disk, memory, memory2, pageVars>>

\* the retriever embeds the question (OllamaEmbeddings.embed_query)
embed(i) ==
    /\ asks[i].pc = "embedding"
    /\ \/ asks' = [asks EXCEPT ![i] =
                     [@ EXCEPT !.vector = embed_query(asks[i].new_question),
                               !.pc = "retrieving"]]
       \/ \E e \in ProviderErrors :
            asks' = [asks EXCEPT ![i] = Raised(@, "embedding", e)]
    /\ UNCHANGED <<siteVars, index_on_disk, memory, memory2, pageVars>>

\* (mutant) a retriever that adds the query it has searched for to the index
retrieve_indexing_query(i) ==
    /\ asks[i].pc = "retrieving"
    /\ asks' = [asks EXCEPT ![i] =
                  [@ EXCEPT !.docs = similarity_search(db, asks[i].vector, K),
                            !.pc = "generating"]]
    /\ db' = Append(db, [text |-> "query", vec |-> asks[i].vector])
    /\ UNCHANGED <<siteVars, index_on_disk, memory, memory2, page, loads, notifications,
                   message_input, chat_messages>>

\* the retriever searches the index for the K nearest documents
retrieve(i) ==
    /\ asks[i].pc = "retrieving"
    /\ \/ asks' = [asks EXCEPT ![i] =
                     [@ EXCEPT !.docs = similarity_search(db, asks[i].vector, K),
                               !.pc = "generating"]]
       \/ asks' = [asks EXCEPT ![i] = Raised(@, "retrieving", "ValueError")]
    /\ UNCHANGED <<siteVars, index_on_disk, memory, memory2, pageVars>>

\* the prompt of CUSTOM_QUESTION_PROMPT: context, chat_history, question
Prompt(a) ==
    [context |-> a.docs, chat_history |-> a.chat_history, question |-> a.new_question]

\* (mutant) the question is recorded before the chat model is called, so that a
\* failed generation leaves it in the memory
generate_after_recording(i) ==
    /\ asks[i].pc = "generating"
    /\ \/ /\ \E answer \in ChatOllama(Prompt(asks[i])) :
               asks' = [asks EXCEPT ![i] =
                          [Ended(@) EXCEPT !.answer = answer, !.pc = "saving_human"]]
          /\ memory' = memory
       \/ /\ \E e \in ProviderErrors :
               asks' = [asks EXCEPT ![i] = Raised(@, "generating", e)]
          /\ memory' = Append(memory, HumanMessage(asks[i].question))
    /\ UNCHANGED <<siteVars, index_on_disk, memory2, pageVars>>

\* (mutant) a chain that refuses to answer without a retrieved document
generate_needing_docs(i) ==
    /\ asks[i].pc = "generating"
    /\ IF asks[i].docs = <<>>
       THEN asks' = [asks EXCEPT ![i] = Raised(@, "generating", "NoDocuments")]
       ELSE \/ \E answer \in ChatOllama(Prompt(asks[i])) :
                 asks' = [asks EXCEPT ![i] =
                            [Ended(@) EXCEPT !.answer = answer, !.pc = "saving_human"]]
            \/ \E e \in ProviderErrors :
                 asks' = [asks EXCEPT ![i] = Raised(@, "generating", e)]
    /\ UNCHANGED <<siteVars, index_on_disk, memory, memory2, pageVars>>

\* the chat model answers Prompt(asks[i]) (combine_docs_chain)
generate(i) ==
    /\ asks[i].pc = "generating"
    /\ \/ \E answer \in ChatOllama(Prompt(asks[i])) :
            asks' = [asks EXCEPT ![i] =
                       [Ended(@) EXCEPT !.answer = answer, !.pc = "saving_human"]]
       \/ \E e \in ProviderErrors :
            asks' = [asks EXCEPT ![i] = Raised(@, "generating", e)]
    /\ UNCHANGED <<siteVars, index_on_disk, memory, memory2, pageVars>>

\* (mutant) a question already in the memory is not recorded again
save_human_dedup(i) ==
    /\ asks[i].pc = "saving_human"
    /\ memory' = IF \E k \in 1..Len(memory) :
                       memory[k] = HumanMessage(asks[i].question)
                 THEN memory
                 ELSE Append(memory, HumanMessage(asks[i].question))
    /\ asks' = [asks EXCEPT ![i].pc = "saving_ai"]
    /\ UNCHANGED <<siteVars, index_on_disk, memory2, pageVars>>

\* the chain saves the exchange to the memory: the question ...
save_human(i) ==
    /\ asks[i].pc = "saving_human"
    /\ add_message(asks[i], HumanMessage(asks[i].question))
    /\ asks' = [asks EXCEPT ![i].pc = "saving_ai"]
    /\ UNCHANGED <<siteVars, index_on_disk, pageVars>>

\* (mutant) the question is recorded once more in place of the answer
save_ai_question(i) ==
    /\ asks[i].pc = "saving_ai"
    /\ memory' = Append(memory, AIMessage(asks[i].question))
    /\ asks' = [asks EXCEPT ![i] =
                  [Ended(@) EXCEPT !.result = asks[i].answer, !.pc = "returned"]]
    /\ UNCHANGED <<siteVars, index_on_disk, memory2, pageVars>>

\* (mutant) a window memory: only the last exchange is kept
save_ai_windowed(i) ==
    /\ asks[i].pc = "saving_ai"
    /\ memory' = LET all == Append(memory, AIMessage(asks[i].answer))
                 IN  SubSeq(all, Len(all) - 1, Len(all))
    /\ asks' = [asks EXCEPT ![i] =
                  [Ended(@) EXCEPT !.result = asks[i].answer, !.pc = "returned"]]
    /\ UNCHANGED <<siteVars, index_on_disk, memory2, pageVars>>

\* ... and then the answer; ask returns response["answer"]
save_ai(i) ==
    /\ asks[i].pc = "saving_ai"
    /\ add_message(asks[i], AIMessage(asks[i].answer))
    /\ asks' = [asks EXCEPT ![i] =
                  [Ended(@) EXCEPT !.result = asks[i].answer, !.pc = "returned"]]
    /\ UNCHANGED <<siteVars, index_on_disk, pageVars>>

\* one step of the thread that runs ask i
ask(i) ==
    \/ load_memory_variables(i)
    \/ condense_question(i)
    \/ embed(i)
    \/ retrieve(i)
    \/ generate(i)
    \/ save_human(i)
    \/ save_ai(i)

----------------------------------------------------------------------------
\* The chatbot page in use

Next ==
    \/ ChatbotPage_init
    \/ \E text \in UserTexts : type_message(text)
    \/ send_message
    \/ \E s \in suggestions : quick_suggestion(s)
    \/ \E i \in 1..Len(asks) : ask(i)
    \/ \E i \in 1..Len(asks) : send_message_resume(i)

Spec == Init /\ [][Next]_vars

\* The page used through its quick suggestions, with the scheduling of
\* asyncio.to_thread: the worker thread of an ask keeps running, each call it
\* makes of a provider returning or raising, and the event loop resumes
\* send_message once the thread has ended.
ask_thread(i) ==
    i \in 1..Len(asks) /\ ask(i)

resumed(i) ==
    i \in 1..Len(asks) /\ send_message_resume(i)

NextLive ==
    \/ ChatbotPage_init
    \/ \E s \in suggestions : quick_suggestion(s)
    \/ \E i \in 1..Len(asks) : ask(i)
    \/ \E i \in 1..Len(asks) : send_message_resume(i)

SpecLive ==
    /\ Init /\ [][NextLive]_vars
    /\ \A i \in 1..MaxCalls : WF_vars(ask_thread(i)) /\ WF_vars(resumed(i))

----------------------------------------------------------------------------
\* The chatbot page visited more than once: each request of /chatbot runs
\* ChatbotPage() anew (main.py, the route chatbot)

\* the browser leaves the page: its elements, and the ChatbotPage with its
\* ChatbotMemory and the asks made on it, are out of reach from then on
leave_page ==
    /\ page # "closed"
    /\ Len(notifications) < MaxVisits
    /\ page' = "closed"
    /\ message_input' = <<>>
    /\ chat_messages' = <<>>
    /\ memory' = <<>>
    /\ asks' = <<>>
    /\ UNCHANGED <<siteVars, index_on_disk, db, loads, notifications, memory2>>

NextVisits ==
    \/ ChatbotPage_init
    \/ leave_page
    \/ \E s \in suggestions : quick_suggestion(s)
    \/ \E i \in 1..Len(asks) : ask(i)
    \/ \E i \in 1..Len(asks) : send_message_resume(i)

SpecVisits == Init /\ [][NextVisits]_vars

----------------------------------------------------------------------------
\* A ChatbotMemory over the loaded index, called by one sequential caller

InitAsk ==
    /\ index_on_disk \in SavedIndexes
    /\ page = "closed"
    /\ db = VectorDB_init.db
    /\ loads = VectorDB_init.load_calls
    /\ notifications = <<>>
    /\ message_input = <<>>
    /\ chat_messages = <<>>
    /\ memory = <<>>
    /\ memory2 = <<>>
    /\ asks = <<>>
    /\ SiteAtStart

\* the caller calls ask(query) once the call before it has returned or raised
call_ask(query) ==
    /\ Len(asks) < MaxCalls
    /\ \A i \in 1..Len(asks) : asks[i].pc \in {"returned", "raised"}
    /\ asks' = Append(asks, NewAsk(query, 0))
    /\ UNCHANGED <<siteVars, index_on_disk, memory, memory2, pageVars>>

NextAsk ==
    \/ \E query \in UserTexts \cup {<<>>, <<"q2">>} : call_ask(query)
    \/ \E i \in 1..Len(asks) : ask(i)

SpecAsk == InitAsk /\ [][NextAsk]_vars

----------------------------------------------------------------------------
\* Two sessions: every visit of /chatbot constructs a ChatbotPage, and with it
\* a VectorDB and a ChatbotMemory, of its own (main.py, the route chatbot)

Sessions == { "s1", "s2" }

\* the asks made on the ChatbotMemory of session s, in call order
AsksOf(s) ==
    SelectSeq(asks, LAMBDA a : a.session = s)

InitSessions ==
    /\ index_on_disk = Corpus
    /\ page = "closed"
    /\ db = VectorDB_init.db
    /\ loads = 2 * VectorDB_init.load_calls
    /\ notifications = <<>>
    /\ message_input = <<>>
    /\ chat_messages = <<>>
    /\ memory = <<>>
    /\ memory2 = <<>>
    /\ asks = <<>>
    /\ SiteAtStart

\* the caller of session s calls ask(query) once its call before has ended
call_ask_in(s, query) ==
    /\ Len(asks) < MaxCalls
    /\ \A i \in 1..Len(asks) :
         asks[i].session = s => asks[i].pc \in {"returned", "raised"}
    /\ asks' = Append(asks, [NewAsk(query, 0) EXCEPT !.session = s])
    /\ UNCHANGED <<siteVars, index_on_disk, memory, memory2, pageVars>>

NextSessions ==
    \/ \E s \in Sessions, query \in {<<"q1", " ">>, <<"q2">>} : call_ask_in(s, query)
    \/ \E i \in 1..Len(asks) : ask(i)

SpecSessions == InitSessions /\ [][NextSessions]_vars

----------------------------------------------------------------------------
\* Properties

Finished(a) ==
    a.pc \in {"returned", "raised"}

NoAskInProgress ==
    \A i \in 1..Len(asks) : Finished(asks[i])

\* the two turns of a successful call
Exchange(a) ==
    << HumanMessage(a.question), AIMessage(a.result) >>

RECURSIVE Exchanges(_)
Exchanges(calls) ==
    IF calls = <<>> THEN <<>> ELSE Exchange(Head(calls)) \o Exchanges(Tail(calls))

\* the successful calls, in call order
Succeeded ==
    SelectSeq(asks, LAMBDA a : a.pc = "returned")

\* C1: after N successful ask calls made one after the other, the memory holds
\* exactly 2N turns, alternating human / ai, the k-th pair being the question
\* and the answer of the k-th successful call.
C1_HistoryOfSequentialCalls ==
    NoAskInProgress =>
        /\ Len(memory) = 2 * Len(Succeeded)
        /\ \A k \in 1..Len(memory) :
             memory[k].type = IF k % 2 = 1 THEN "human" ELSE "ai"
        /\ memory = Exchanges(Succeeded)

\* two successful calls with the same question, a failed call aside
C1_Witness ==
    /\ NoAskInProgress
    /\ Len(Succeeded) = 2
    /\ Succeeded[1].question = Succeeded[2].question
    /\ Len(memory) = 4

\* the number of turns a call has put into the memory so far
Recorded(a) ==
    CASE a.pc = "returned"  -> 2
      [] a.pc = "saving_ai" -> 1
      [] OTHER              -> 0

RECURSIVE TotalRecorded(_)
TotalRecorded(calls) ==
    IF calls = <<>> THEN 0 ELSE Recorded(Head(calls)) + TotalRecorded(Tail(calls))

\* C2: an ask that fails, at whatever stage, has recorded nothing: the turns in
\* the memory are those of the calls whose answer was generated, and every
\* human turn is the question of such a call.
C2_FailedAskRecordsNothing ==
    /\ Len(memory) = TotalRecorded(asks)
    /\ \A k \in 1..Len(memory) :
         memory[k].type = "human" =>
            \E i \in 1..Len(asks) :
               /\ asks[i].pc \in {"saving_ai", "returned"}
               /\ memory[k].content = asks[i].question

\* a call failed in generation after another call had succeeded
C2_Witness ==
    \E i, j \in 1..Len(asks) :
       /\ asks[i].pc = "raised" /\ asks[i].failed_at = "generating"
       /\ asks[j].pc = "returned"
       /\ Len(memory) = 2

\* C3: ask on an empty or whitespace-only query is rejected with InvalidInput
\* before anything of the chain runs.
C3_BlankQueryRejected ==
    \A i \in 1..Len(asks) :
       strip(asks[i].question) = <<>> =>
          /\ asks[i].pc \in {"called", "raised"}
          /\ asks[i].pc = "raised" => asks[i].error = "InvalidInput"

\* C4: the memory changes only by a call whose answer has been generated, which
\* appends the human turn with the question as passed to ask and then the ai
\* turn with the answer that ask returns.
C4_SuccessAppendsQuestionThenAnswer ==
    [][ memory' # memory =>
          \E i \in 1..Len(asks) :
             \/ /\ asks[i].pc = "saving_human" /\ asks'[i].pc = "saving_ai"
                /\ asks[i].answer \in Answers
                /\ memory' = Append(memory, HumanMessage(asks[i].question))
             \/ /\ asks[i].pc = "saving_ai" /\ asks'[i].pc = "returned"
                /\ asks'[i].question = asks[i].question
                /\ memory' = Append(memory, AIMessage(asks'[i].result)) ]_vars

\* a call with an unstripped question has returned, both turns in the memory
C4_Witness ==
    \E i \in 1..Len(asks) :
       /\ asks[i].pc = "returned"
       /\ asks[i].question = <<"q1", " ">>
       /\ memory = Exchange(asks[i])

\* C5: no two asks are in progress on the page at the same time.
C5_OneAskAtATime ==
    Cardinality({ i \in 1..Len(asks) : ~Finished(asks[i]) }) <= 1

\* C6: when q1 and then q2 were sent and both asks succeeded, the memory reads
\* q1, a1, q2, a2.
C6_TurnsInCallOrder ==
    (Len(asks) = 2 /\ asks[1].pc = "returned" /\ asks[2].pc = "returned") =>
        memory = Exchange(asks[1]) \o Exchange(asks[2])

\* the stages of one ask in the order Idle, Embedding, Retrieving, Generating
\* (with the memory update), Done, and Failed from the three middle ones
FiveStateSteps ==
    { <<"called", "embedding">>, <<"embedding", "retrieving">>,
      <<"retrieving", "generating">>, <<"generating", "saving_human">>,
      <<"saving_human", "saving_ai">>, <<"saving_ai", "returned">>,
      <<"embedding", "raised">>, <<"retrieving", "raised">>,
      <<"generating", "raised">> }

\* the steps in which the chat model is asked to rephrase the question first
CondensingSteps ==
    { <<"called", "condensing">>, <<"condensing", "embedding">>,
      <<"condensing", "raised">> }

Kind(stage) ==
    CASE stage = "generating" -> "GenerationFailed"
      [] OTHER                -> "ProviderUnavailable"

\* C8: asks that failed with different kinds of failure are shown to the user
\* as different outcomes.
C8_FailureKindsDistinguishable ==
    \A i, j \in 1..Len(asks) :
       ( /\ asks[i].pc = "raised" /\ asks[i].shown
         /\ asks[j].pc = "raised" /\ asks[j].shown
         /\ asks[i].failed_at \in {"embedding", "generating"}
         /\ asks[j].failed_at \in {"embedding", "generating"}
         /\ Kind(asks[i].failed_at) # Kind(asks[j].failed_at) )
       => chat_messages[asks[i].bubble] # chat_messages[asks[j].bubble]

\* C9: when the failure of an ask for a typed message is shown, the apology is
\* in its bubble and the message input holds the text that was typed.
C9_InputPreservedOnFailure ==
    [][ \A i \in 1..Len(asks) :
          ( /\ asks[i].question \in UserTexts
            /\ asks[i].pc = "raised" /\ ~asks[i].shown /\ asks'[i].shown ) =>
             /\ chat_messages'[asks[i].bubble].kind = "error"
             /\ message_input' = asks[i].question ]_vars

\* C10: with no index at the path, constructing the VectorDB raises
\* FileNotFoundError with no load attempted, and no index object results.
C10_MissingIndexNotLoaded ==
    (index_on_disk = NoIndex /\ page # "closed") =>
        /\ page = "init_failed"
        /\ loads = 0
        /\ db = None
        /\ \E n \in 1..Len(notifications) :
             notifications[n] = Notice("negative", "FileNotFoundError")

\* the page was opened with no index on disk
C10_Witness ==
    index_on_disk = NoIndex /\ page = "init_failed"

\* C11: when the index is missing as the page is opened, the initialization is
\* given up with an error notice and the page stays in use: the loading notice
\* is dismissed, the ready notice is never shown, no ask is ever made, and
\* every message sent afterwards is answered by the error bubble, never by an
\* answer and never by a spinner left behind.
C11_MissingIndexPageAnswersWithError ==
    (index_on_disk = NoIndex /\ page # "closed") =>
        /\ page = "init_failed"
        /\ \A n \in 1..Len(notifications) :
             notifications[n].type \notin {"loading", "positive"}
        /\ \E n \in 1..Len(notifications) : notifications[n].type = "negative"
        /\ asks = <<>>
        /\ memory = <<>>
        /\ Len(chat_messages) % 2 = 0
        /\ \A b \in 1..Len(chat_messages) :
             IF b % 2 = 1
             THEN chat_messages[b].sent /\ strip(chat_messages[b].body) # <<>>
             ELSE /\ ~chat_messages[b].sent
                  /\ chat_messages[b].kind = "error"

\* two messages were sent on a page whose initialization had failed
C11_Witness ==
    /\ page = "init_failed"
    /\ Len(chat_messages) = 4
    /\ chat_messages[2].kind = "error"
    /\ chat_messages[4].kind = "error"

\* C12: the memory changes only by being appended to, one turn at a time, by a
\* step of an ask: what it held before a step is a prefix of what it holds
\* after, every saving step of an ask adds a turn (a question asked before is
\* recorded again), and no step of the page changes it.
C12_MemoryOnlyAppendedByAsk ==
    [][ /\ Len(memory') >= Len(memory)
        /\ SubSeq(memory', 1, Len(memory)) = memory
        /\ \A i \in 1..Len(asks) :
             ( /\ asks[i].pc \in {"saving_human", "saving_ai"}
               /\ asks'[i].pc # asks[i].pc ) => Len(memory') = Len(memory) + 1
        /\ memory' # memory =>
             \E i \in 1..Len(asks) :
                /\ asks[i].pc \in {"saving_human", "saving_ai"}
                /\ asks'[i].pc # asks[i].pc ]_vars

\* the same question was asked twice and is in the memory twice, in four turns
C12_Witness ==
    /\ Len(memory) = 4
    /\ memory[1].type = "human"
    /\ memory[3] = memory[1]

\* the turns of chat_history, as a set
Turns(chat_history) ==
    { chat_history[k] : k \in 1..Len(chat_history) }

\* C13: the prompt handed to the chat model for the answer of an ask holds
\* every turn recorded by the asks made before it that have succeeded: the
\* question and the answer of each of them.
C13_PromptHoldsEarlierTurns ==
    \A i \in 1..Len(asks) :
       asks[i].pc = "generating" =>
          \A j \in 1..(i - 1) :
             asks[j].pc = "returned" =>
                /\ HumanMessage(asks[j].question) \in Turns(Prompt(asks[i]).chat_history)
                /\ AIMessage(asks[j].result) \in Turns(Prompt(asks[i]).chat_history)

\* the turns that the asks of calls, made one after the other, have recorded
RECURSIVE RecordedTurns(_)
RecordedTurns(calls) ==
    IF calls = <<>> THEN <<>>
    ELSE LET a == Head(calls)
         IN  ( CASE a.pc = "returned"  -> Exchange(a)
                 [] a.pc = "saving_ai" -> << HumanMessage(a.question) >>
                 [] OTHER              -> <<>> )
             \o RecordedTurns(Tail(calls))

\* C14: two sessions have memories of their own: the memory of a session
\* holds the turns of the asks of that session and nothing else, and the
\* history in the prompt of an ask is the memory of its own session, however
\* the asks of the two sessions interleave.
C14_SessionsHaveOwnMemories ==
    /\ memory  = RecordedTurns(AsksOf("s1"))
    /\ memory2 = RecordedTurns(AsksOf("s2"))
    /\ \A i \in 1..Len(asks) :
         asks[i].pc \in {"condensing", "embedding", "retrieving", "generating"} =>
            Prompt(asks[i]).chat_history =
               RecordedTurns(SelectSeq(SubSeq(asks, 1, i - 1),
                                       LAMBDA a : a.session = asks[i].session))

\* an ask of the second session is at its prompt with an empty history while
\* the first session has an exchange in its memory
C14_Witness ==
    \E i \in 1..Len(asks) :
       /\ asks[i].session = "s2"
       /\ asks[i].pc = "generating"
       /\ Prompt(asks[i]).chat_history = <<>>
       /\ Len(memory) = 2
       /\ memory2 = <<>>

\* C15: a retrieval that finds no document hands an empty context to the
\* generation, which goes on as with any other context: an ask leaves the
\* retrieval on an empty index for the generation or by an exception of the
\* search itself, and leaves the generation with an empty context for the
\* recording of the answer or by an exception of the chat model.
C15_EmptyRetrievalGoesOnToGeneration ==
    [][ \A i \in 1..Len(asks) :
          /\ ( /\ asks[i].pc = "retrieving" /\ db = EmptyIndex
               /\ asks'[i].pc # "retrieving" ) =>
                \/ /\ asks'[i].pc = "generating"
                   /\ Prompt(asks'[i]).context = <<>>
                \/ /\ asks'[i].pc = "raised"
                   /\ asks'[i].failed_at = "retrieving"
          /\ ( /\ asks[i].pc = "generating" /\ Prompt(asks[i]).context = <<>>
               /\ asks'[i].pc # "generating" ) =>
                \/ /\ asks'[i].pc = "saving_human"
                   /\ asks'[i].answer \in ChatOllama(Prompt(asks[i]))
                \/ /\ asks'[i].pc = "raised"
                   /\ asks'[i].error \in ProviderErrors ]_vars

\* on an index without entries an ask has returned, its answer in the memory
C15_Witness ==
    /\ db = EmptyIndex
    /\ \E i \in 1..Len(asks) :
          /\ asks[i].pc = "returned"
          /\ asks[i].result \in Answers
          /\ memory = Exchange(asks[i])

\* C16: a search of the index for the K nearest entries of a query vector
\* returns at most K entries, no entry twice, in the order of non-decreasing
\* distance to the query, and no entry left out is strictly nearer to the
\* query than an entry returned; the documents handed on are theirs.
C16_SearchReturnsKNearest ==
    \A i \in 1..Len(asks) :
       asks[i].pc = "generating" =>
          LET v    == asks[i].vector
              hits == nearest(db, v, K)
              D(j) == Dist(db[j].vec, v)
          IN  /\ Len(hits) <= K
              /\ asks[i].docs = [ r \in 1..Len(hits) |-> db[hits[r]].text ]
              /\ \A r \in 1..Len(hits) : hits[r] \in 1..Len(db)
              /\ \A r, t \in 1..Len(hits) :
                   r < t => hits[r] # hits[t] /\ D(hits[r]) <= D(hits[t])
              /\ \A j \in 1..Len(db) :
                   (\A r \in 1..Len(hits) : hits[r] # j) =>
                      \A r \in 1..Len(hits) : D(hits[r]) <= D(j)

\* a search of the four-entry index that left out the first entry, the
\* farthest from the query
C16_Witness ==
    \E i \in 1..Len(asks) :
       /\ asks[i].pc = "generating"
       /\ db = Corpus
       /\ asks[i].docs = << "doc4", "doc3", "doc2" >>

\* the documents of a retrieval, as a set
DocSet(docs) ==
    { docs[r] : r \in 1..Len(docs) }

C18_AsksLeaveIndexAlone ==
    [][ /\ index_on_disk' = index_on_disk
        /\ page # "closed" => db' = db
        /\ page' = "ready" => db' = index_on_disk ]_vars

\* an ask has succeeded and another has failed after its retrieval, the index
\* being the one loaded
C18_Witness ==
    /\ page = "ready"
    /\ db = Corpus
    /\ \E i, j \in 1..Len(asks) :
          /\ asks[i].pc = "returned"
          /\ asks[j].pc = "raised" /\ asks[j].failed_at = "generating"

\* C19: nothing is tried again after a failure: the step in which a call of
\* the provider fails ends the ask as raised at the stage it stood at, an ask
\* that has raised takes no further step of the chain, and the page, shown the
\* failure, puts the apology in the bubble and makes no new ask for the query.
C19_NoRetryAfterFailure ==
    [][ \A i \in 1..Len(asks) :
          /\ (asks[i].pc # "raised" /\ asks'[i].pc = "raised") =>
                /\ asks'[i].failed_at = asks[i].pc
                /\ asks'[i].error # ""
                /\ memory' = memory
          /\ asks[i].pc = "raised" =>
                /\ asks'[i] = [asks[i] EXCEPT !.shown = asks'[i].shown]
                /\ asks'[i].shown # asks[i].shown =>
                      /\ Len(asks') = Len(asks)
                      /\ chat_messages'[asks[i].bubble] =
                            Bubble(FALSE, "error", Apology(asks[i].error)) ]_vars

\* the embedding of an ask has failed and the failure was shown: the ask has
\* neither searched the index nor called the chat model
C19_Witness ==
    \E i \in 1..Len(asks) :
       /\ asks[i].pc = "raised"
       /\ asks[i].failed_at = "embedding"
       /\ asks[i].error \in ProviderErrors
       /\ asks[i].shown
       /\ chat_messages[asks[i].bubble].kind = "error"
       /\ memory = <<>>

\* C20: every ask that was started ends, returned or raised, and the bubble
\* that showed the spinner for it comes to show the answer or the apology.
C20_EveryAskEndsAndIsShown ==
    \A i \in 1..MaxCalls :
       (Len(asks) >= i) ~>
          ( /\ Len(asks) >= i
            /\ Finished(asks[i])
            /\ asks[i].shown
            /\ chat_messages[asks[i].bubble].kind \in {"markdown", "error"} )

\* an ask has returned and another has raised, and both bubbles show the outcome
C20_Witness ==
    \E i, j \in 1..Len(asks) :
       /\ asks[i].pc = "returned" /\ asks[i].shown
       /\ chat_messages[asks[i].bubble].kind = "markdown"
       /\ asks[j].pc = "raised" /\ asks[j].shown
       /\ chat_messages[asks[j].bubble].kind = "error"

\* C21: however often the chatbot page is opened and whatever asks are made,
\* the index is loaded from the disk at most once, and exactly once when the
\* page has been opened with the index in place.
C21_IndexLoadedOnce ==
    /\ loads <= 1
    /\ (index_on_disk # NoIndex /\ page = "ready") => loads = 1

\* C22: the answer that ask returns for a query whose retrieval found no
\* document is the statement that the information is not in the documents.
C22_NoDocumentsAnsweredByStatement ==
    \A i \in 1..Len(asks) :
       (db = EmptyIndex /\ asks[i].pc = "returned") =>
          asks[i].result = NotInDocuments

\* the texts that a click on a quick suggestion sends
SuggestedTexts ==
    { clean_text(s) : s \in suggestions }

\* C23: while the message input is empty or holds only whitespace, a
\* send_message changes nothing: a bubble is added, an ask made or the input
\* cleared only by a click on a suggestion, which sends the text of the
\* suggestion; so no ask made from the page has a blank question and no
\* bubble of the user is blank.
C23_BlankSendChangesNothing ==
    [][ /\ strip(message_input) = <<>> =>
             /\ Len(chat_messages') > Len(chat_messages) =>
                   chat_messages'[Len(chat_messages) + 1].body \in SuggestedTexts
             /\ Len(asks') > Len(asks) =>
                   asks'[Len(asks')].question \in SuggestedTexts
             /\ (message_input # <<>> /\ message_input' = <<>>) =>
                   Len(chat_messages') > Len(chat_messages)
             /\ memory' # memory => \E i \in 1..Len(asks) : asks'[i] # asks[i]
        /\ \A i \in 1..Len(asks') : strip(asks'[i].question) # <<>>
        /\ \A b \in 1..Len(chat_messages') :
             chat_messages'[b].sent => strip(chat_messages'[b].body) # <<>> ]_vars

\* the input of the open page holds whitespace only, and nothing was sent
C23_Witness ==
    /\ page = "ready"
    /\ message_input = <<" ">>
    /\ chat_messages = <<>>
    /\ asks = <<>>

----------------------------------------------------------------------------
\* core/theme.py ThemeManager, and its callers in main.py
\*
\* A method of the manager runs in a context: the request of a user, whose
\* storage app.storage.user then is, or no request at all, where
\* app.storage.user raises RuntimeError.  ui.run_javascript either succeeds
\* or raises (js), as where there is no page to run it on.

\* the chatbot page stays closed while the rest of the site is exercised
ChatbotClosed ==
    /\ index_on_disk = Corpus
    /\ page = "closed"
    /\ db = None
    /\ loads = 0
    /\ notifications = <<>>
    /\ message_input = <<>>
    /\ chat_messages = <<>>
    /\ memory = <<>>
    /\ memory2 = <<>>
    /\ asks = <<>>

JsOutcomes == { "ok", "raises" }

\* apply_theme_preference
apply_theme_preference(tm) ==
    IF tm.theme_preference = AUTO
    THEN [ tm EXCEPT !.current_theme = tm.system_theme ]
    ELSE IF tm.theme_preference = LIGHT
    THEN [ tm EXCEPT !.current_theme = LIGHT ]
    ELSE IF tm.theme_preference = DARK
    THEN [ tm EXCEPT !.current_theme = DARK ]
    ELSE tm

\* save_theme_preferences: writes the three keys, or gives up on RuntimeError
save_theme_preferences(tm, st, ctx) ==
    IF ctx = NoRequest THEN st ELSE [ st EXCEPT ![ctx].theme = tm ]

\* load_theme_preferences: the stored preference and system theme, 'auto' and
\* 'light' for keys not stored; the except branch on RuntimeError (no
\* request) and ValueError (a stored value that is no member of the enum)
load_theme_preferences_of(tm, st, ctx) ==
    IF ctx = NoRequest
    THEN ThemeManager_init
    ELSE LET stored == st[ctx].theme
             stored_preference == IF stored.theme_preference = Unset
                                  THEN AUTO ELSE stored.theme_preference
             stored_system_theme == IF stored.system_theme = Unset
                                    THEN LIGHT ELSE stored.system_theme
         IN  IF stored_preference \notin ThemePreference \/ stored_system_theme \notin Theme
             THEN ThemeManager_init
             ELSE apply_theme_preference([ tm EXCEPT !.theme_preference = stored_preference,
                                                     !.system_theme = stored_system_theme ])

\* update_theme_dynamically: when ui.run_javascript raises, apply_theme, which
\* begins by loading the preferences again
update_theme_dynamically(tm, st, ctx, js) ==
    IF js = "ok" THEN tm ELSE load_theme_preferences_of(tm, st, ctx)

toggle_cycle_to_light(tm) ==
    IF tm.theme_preference = AUTO
    THEN [ tm EXCEPT !.theme_preference = LIGHT, !.current_theme = LIGHT ]
    ELSE IF tm.theme_preference = LIGHT
    THEN [ tm EXCEPT !.theme_preference = DARK, !.current_theme = DARK ]
    ELSE [ tm EXCEPT !.theme_preference = AUTO, !.current_theme = LIGHT ]

\* the branches of toggle_theme: auto -> light -> dark -> auto
toggle_cycle(tm) ==
    IF tm.theme_preference = AUTO
    THEN [ tm EXCEPT !.theme_preference = LIGHT, !.current_theme = LIGHT ]
    ELSE IF tm.theme_preference = LIGHT
    THEN [ tm EXCEPT !.theme_preference = DARK, !.current_theme = DARK ]
    ELSE [ tm EXCEPT !.theme_preference = AUTO, !.current_theme = tm.system_theme ]

\* ThemeManager.toggle_theme: the manager and the storage it leaves
ThemeManager_toggle_theme(tm, st, ctx, js) ==
    LET toggled == toggle_cycle(tm)
        saved == save_theme_preferences(toggled, st, ctx)
    IN  [ tm |-> update_theme_dynamically(toggled, saved, ctx, js), st |-> saved ]

\* ThemeManager.set_theme_preference
ThemeManager_set_theme_preference(tm, st, ctx, preference, js) ==
    LET applied == apply_theme_preference([ tm EXCEPT !.theme_preference = preference ])
        saved == save_theme_preferences(applied, st, ctx)
    IN  [ tm |-> update_theme_dynamically(applied, saved, ctx, js), st |-> saved ]

ThemeManager_set_system_theme_forcing(tm, st, ctx, system_theme, js) ==
    LET followed == [ tm EXCEPT !.system_theme = system_theme,
                                !.current_theme = system_theme ]
        saved == save_theme_preferences(followed, st, ctx)
    IN  [ tm |-> followed, st |-> saved ]

\* ThemeManager.set_system_theme
ThemeManager_set_system_theme(tm, st, ctx, system_theme, js) ==
    LET noted == [ tm EXCEPT !.system_theme = system_theme ]
    IN  IF tm.theme_preference = AUTO
        THEN LET followed == [ noted EXCEPT !.current_theme = system_theme ]
             IN  IF tm.current_theme # followed.current_theme
                 THEN LET saved == save_theme_preferences(followed, st, ctx)
                      IN  [ tm |-> update_theme_dynamically(followed, saved, ctx, js),
                            st |-> saved ]
                 ELSE [ tm |-> followed, st |-> st ]
        ELSE [ tm |-> noted, st |-> st ]

\* MindCareApp.toggle_theme, the callback of the navbar's theme button: a
\* click of user u
toggle_theme(u, js) ==
    LET after == ThemeManager_toggle_theme(theme_manager, storage_user, u, js)
    IN  /\ theme_manager' = after.tm
        /\ storage_user' = after.st
        /\ mindcare_app' = [ mindcare_app EXCEPT !.current_theme = after.tm.current_theme ]
        /\ navbar' = [ current_theme |-> after.tm.current_theme,
                       theme_preference |-> after.tm.theme_preference ]
        /\ UNCHANGED <<chatVars, i18nVars, reports_page, wrapper>>

\* a call of theme_manager.set_theme_preference
set_theme_preference(ctx, preference, js) ==
    LET after == ThemeManager_set_theme_preference(theme_manager, storage_user,
                                                   ctx, preference, js)
    IN  /\ theme_manager' = after.tm
        /\ storage_user' = after.st
        /\ UNCHANGED <<chatVars, mindcare_app, navbar, i18nVars, reports_page, wrapper>>

\* a call of theme_manager.set_system_theme
set_system_theme(ctx, system_theme, js) ==
    LET after == ThemeManager_set_system_theme(theme_manager, storage_user,
                                               ctx, system_theme, js)
    IN  /\ theme_manager' = after.tm
        /\ storage_user' = after.st
        /\ UNCHANGED <<chatVars, mindcare_app, navbar, i18nVars, reports_page, wrapper>>

\* a call of theme_manager.load_theme_preferences
load_theme_preferences(ctx) ==
    /\ theme_manager' = load_theme_preferences_of(theme_manager, storage_user, ctx)
    /\ UNCHANGED <<chatVars, mindcare_app, navbar, storage_user, i18nVars,
                   reports_page, wrapper>>

\* what the page's script may post as {theme: ...}
PostedThemes == { "dark", "light", "sepia" }

\* Theme.DARK if data.get('theme') == 'dark' else Theme.LIGHT
posted_theme(value) == IF value = "dark" THEN DARK ELSE LIGHT

\* how a handler's try block goes: "success", or "error" when reading the
\* request's JSON raises and the except branch answers
HandlerOutcomes == { "success", "error" }

\* POST /api/theme/system-detected in a request of user u
system_theme_detected(u, value, outcome) ==
    /\ IF outcome = "error"
       THEN UNCHANGED <<theme_manager, storage_user>>
       ELSE LET noted == [ theme_manager EXCEPT !.system_theme = posted_theme(value) ]
            IN  /\ storage_user' = save_theme_preferences(noted, storage_user, u)
                /\ theme_manager' =
                       IF /\ theme_manager.theme_preference = AUTO
                          /\ theme_manager.system_theme # posted_theme(value)
                       THEN apply_theme_preference(noted)
                       ELSE noted
    /\ UNCHANGED <<chatVars, mindcare_app, navbar, i18nVars, reports_page, wrapper>>

\* POST /api/theme/system-changed in a request of user u
system_theme_changed(u, value, outcome, js) ==
    /\ IF outcome = "error"
       THEN UNCHANGED <<theme_manager, storage_user>>
       ELSE LET after == ThemeManager_set_system_theme(theme_manager, storage_user,
                                                       u, posted_theme(value), js)
            IN  /\ theme_manager' = after.tm
                /\ storage_user' = after.st
    /\ UNCHANGED <<chatVars, mindcare_app, navbar, i18nVars, reports_page, wrapper>>

InitTheme == ChatbotClosed /\ SiteAtStart

NextTheme ==
    \/ \E u \in Users, js \in JsOutcomes : toggle_theme(u, js)
    \/ \E ctx \in Contexts, preference \in ThemePreference, js \in JsOutcomes :
           set_theme_preference(ctx, preference, js)
    \/ \E ctx \in Contexts, t \in Theme, js \in JsOutcomes : set_system_theme(ctx, t, js)
    \/ \E ctx \in Contexts : load_theme_preferences(ctx)
    \/ \E u \in Users, value \in PostedThemes, outcome \in HandlerOutcomes :
           system_theme_detected(u, value, outcome)
    \/ \E u \in Users, value \in PostedThemes, outcome \in HandlerOutcomes,
          js \in JsOutcomes : system_theme_changed(u, value, outcome, js)

SpecTheme == InitTheme /\ [][NextTheme]_vars

\* the visitors' actions alone: clicks of the theme button and the two
\* notifications of the page's script
NextThemeVisits ==
    \/ \E u \in Users, js \in JsOutcomes : toggle_theme(u, js)
    \/ \E u \in Users, value \in PostedThemes, outcome \in HandlerOutcomes :
           system_theme_detected(u, value, outcome)
    \/ \E u \in Users, value \in PostedThemes, outcome \in HandlerOutcomes,
          js \in JsOutcomes : system_theme_changed(u, value, outcome, js)

SpecThemeVisits == InitTheme /\ [][NextThemeVisits]_vars

\* C24: toggle_theme moves the preference auto -> light -> dark -> auto; after
\* it the current theme is LIGHT under light, DARK under dark and the system
\* theme under auto; and two more toggles, the system theme left alone, bring
\* back the preference and the current theme the first toggle found.
NextPreference(preference) ==
    IF preference = AUTO THEN LIGHT ELSE IF preference = LIGHT THEN DARK ELSE AUTO

ThemeOf(preference, system_theme) ==
    IF preference = LIGHT THEN LIGHT ELSE IF preference = DARK THEN DARK ELSE system_theme

C24_ToggleCycles ==
    [][ \A u \in Users, js \in JsOutcomes :
          toggle_theme(u, js) =>
            /\ theme_manager'.theme_preference = NextPreference(theme_manager.theme_preference)
            /\ theme_manager'.system_theme = theme_manager.system_theme
            /\ theme_manager'.current_theme =
                   ThemeOf(theme_manager'.theme_preference, theme_manager.system_theme)
            /\ \A u2 \in Users, js2 \in JsOutcomes, u3 \in Users, js3 \in JsOutcomes :
                 LET second == ThemeManager_toggle_theme(theme_manager', storage_user', u2, js2)
                     third == ThemeManager_toggle_theme(second.tm, second.st, u3, js3)
                 IN  /\ second.tm.theme_preference =
                            NextPreference(theme_manager'.theme_preference)
                     /\ second.tm.current_theme =
                            ThemeOf(second.tm.theme_preference, theme_manager.system_theme)
                     /\ third.tm.theme_preference = theme_manager.theme_preference
                     /\ third.tm.current_theme = theme_manager.current_theme
                     /\ third.tm.system_theme = theme_manager.system_theme ]_vars

\* a toggle has brought the preference back to auto under a dark system theme
C24_Witness ==
    /\ theme_manager.theme_preference = AUTO
    /\ theme_manager.system_theme = DARK
    /\ navbar.theme_preference = AUTO
    /\ navbar.current_theme = DARK

\* C26: after any sequence of toggle_theme, set_theme_preference,
\* set_system_theme, load_theme_preferences and the two API handlers, the
\* current theme is the system theme under auto, LIGHT under light and DARK
\* under dark; and a change of the system theme under a forced preference
\* leaves the current theme and the preference as they were.
SystemThemeStep ==
    \/ \E ctx \in Contexts, t \in Theme, js \in JsOutcomes : set_system_theme(ctx, t, js)
    \/ \E u \in Users, value \in PostedThemes, outcome \in HandlerOutcomes :
           system_theme_detected(u, value, outcome)
    \/ \E u \in Users, value \in PostedThemes, outcome \in HandlerOutcomes,
          js \in JsOutcomes : system_theme_changed(u, value, outcome, js)

----------------------------------------------------------------------------
\* utils/helpers.py retry_on_failure: one call of a decorated function

\* the largest max_retries a function is decorated with
MaxRetries == 3

\* what an invocation of the decorated function may return
FuncResults == { "r1", "r2" }

\* the exceptions it may raise: subclasses of Exception, which the wrapper
\* catches, and KeyboardInterrupt, which "except Exception" lets through
CaughtKinds == { "ConnectionError", "TimeoutError", "ValueError" }
ExceptionKinds == CaughtKinds \cup { "KeyboardInterrupt" }

\* the outcomes of one invocation
Returns(value) == [ raised |-> FALSE, value |-> value ]
Raises(kind) == [ raised |-> TRUE, value |-> kind ]
FuncOutcomes ==
    { Returns(v) : v \in FuncResults } \cup { Raises(k) : k \in ExceptionKinds }

is_last_attempt_never(attempt, max_retries) == attempt = max_retries

\* if attempt == max_retries - 1
is_last_attempt(attempt, max_retries) == attempt = max_retries - 1

\* wrapper(*args, **kwargs) is called on a function decorated with
\* max_retries = n: the loop is entered, or, over an empty range, left at once
\* for "return None"
call_wrapper(n) ==
    /\ wrapper.pc \in { "idle", "returned", "raised" }
    /\ wrapper' = IF n > 0
                  THEN [ pc |-> "looping", max_retries |-> n, attempt |-> 0,
                         outcomes |-> <<>>, result |-> None, exception |-> None ]
                  ELSE [ pc |-> "returned", max_retries |-> n, attempt |-> 0,
                         outcomes |-> <<>>, result |-> None, exception |-> None ]
    /\ UNCHANGED <<chatVars, themeVars, storage_user, i18nVars, reports_page>>

\* one turn of "for attempt in range(max_retries)": the function is invoked;
\* its result is returned, or its exception is raised again on the last
\* attempt (or when it is no Exception), or the loop sleeps and goes on, and
\* falls through to "return None" after the last turn
attempt_once(outcome) ==
    /\ wrapper.pc = "looping"
    /\ LET made == [ wrapper EXCEPT !.outcomes = Append(@, outcome) ]
       IN  wrapper' =
             IF ~ outcome.raised
             THEN [ made EXCEPT !.pc = "returned", !.result = outcome.value ]
             ELSE IF \/ outcome.value \notin CaughtKinds
                     \/ is_last_attempt(wrapper.attempt, wrapper.max_retries)
             THEN [ made EXCEPT !.pc = "raised",
                                !.exception = [ kind |-> outcome.value,
                                                attempt |-> wrapper.attempt ] ]
             ELSE IF wrapper.attempt + 1 < wrapper.max_retries
             THEN [ made EXCEPT !.attempt = @ + 1 ]
             ELSE [ made EXCEPT !.pc = "returned", !.result = None ]
    /\ UNCHANGED <<chatVars, themeVars, storage_user, i18nVars, reports_page>>

InitRetry == ChatbotClosed /\ SiteAtStart

NextRetry ==
    \/ \E n \in 0..MaxRetries : call_wrapper(n)
    \/ \E outcome \in FuncOutcomes : attempt_once(outcome)

SpecRetry == InitRetry /\ [][NextRetry]_vars

\* C25: a function decorated with retry_on_failure(max_retries = n), n >= 1,
\* is invoked at most n times per call of the wrapper; the wrapper returns the
\* result of the first attempt that does not raise and makes no attempt after
\* it; and when all n attempts raise, it raises the exception of the n-th.
AllRaised(outcomes) == \A k \in 1..Len(outcomes) : outcomes[k].raised

C25_RetryAtMostNTimes ==
    ( wrapper.pc # "idle" /\ wrapper.max_retries >= 1 ) =>
        LET made == wrapper.outcomes
            n == wrapper.max_retries
        IN  /\ Len(made) <= n
            /\ \A k \in 1..Len(made) :
                 ~ made[k].raised =>
                     /\ k = Len(made)
                     /\ wrapper.pc = "returned"
                     /\ wrapper.result = made[k].value
            /\ ( wrapper.pc = "returned" ) =>
                 ( Len(made) >= 1 /\ ~ made[Len(made)].raised )
            /\ ( Len(made) = n /\ AllRaised(made) ) =>
                 /\ wrapper.pc = "raised"
                 /\ wrapper.exception = [ kind |-> made[n].value, attempt |-> n - 1 ]

\* a call with max_retries = 3 has raised after three failed attempts, the
\* third with another exception than the first
C25_Witness ==
    /\ wrapper.pc = "raised"
    /\ wrapper.max_retries = 3
    /\ Len(wrapper.outcomes) = 3
    /\ wrapper.outcomes[1].value # wrapper.outcomes[3].value

----------------------------------------------------------------------------
\* core/i18n.py I18nManager (the one instance i18n of the application), and
\* its callers in main.py

\* what a request may name as language: the supported ones and another
Languages == supported_languages \cup { "de" }

\* what the 'language' key of a user's storage may hold when the application
\* starts: nothing, or a language saved by an earlier run
StoredLanguages == Languages \cup { Unset }

\* get_language_direction
get_language_direction(language) ==
    IF language \in { "ar", "he", "fa", "ur" } THEN "rtl" ELSE "ltr"

\* save_language: writes the key, or gives up on RuntimeError
save_language(mgr, st, ctx) ==
    IF ctx = NoRequest THEN st ELSE [ st EXCEPT ![ctx].language = mgr.current_language ]

I18nManager_set_language_unchecked(mgr, st, ctx, language) ==
    LET changed == [ mgr EXCEPT !.current_language = language, !.returned = "True" ]
    IN  [ i18n |-> changed, st |-> save_language(changed, st, ctx) ]

\* I18nManager.set_language
I18nManager_set_language(mgr, st, ctx, language) ==
    IF language \in supported_languages
    THEN LET changed == [ mgr EXCEPT !.current_language = language, !.returned = "True" ]
         IN  [ i18n |-> changed, st |-> save_language(changed, st, ctx) ]
    ELSE [ i18n |-> [ mgr EXCEPT !.returned = "False" ], st |-> st ]

\* I18nManager.load_language: the stored language, the default one for a key
\* not stored; the default one too when the stored language is not supported
\* and, in the except branch, when there is no request
I18nManager_load_language(mgr, st, ctx) ==
    IF ctx = NoRequest
    THEN [ mgr EXCEPT !.current_language = default_language ]
    ELSE LET stored_language == IF st[ctx].language = Unset
                                THEN default_language ELSE st[ctx].language
         IN  IF stored_language \in supported_languages
             THEN [ mgr EXCEPT !.current_language = stored_language ]
             ELSE [ mgr EXCEPT !.current_language = default_language ]

\* i18n.set_language(language) in a request of user u: the page
\* /lang/{language}, the language selector, POST /api/language/change
set_language(u, language) ==
    LET after == I18nManager_set_language(i18n, storage_user, u, language)
    IN  /\ i18n' = after.i18n
        /\ storage_user' = after.st
        /\ UNCHANGED <<chatVars, themeVars, rendered, reports_page, wrapper>>

\* a call of i18n.load_language
load_language(ctx) ==
    /\ i18n' = I18nManager_load_language(i18n, storage_user, ctx)
    /\ UNCHANGED <<chatVars, themeVars, storage_user, rendered, reports_page, wrapper>>

\* the lang and dir attributes render_page gives the page it builds for user
\* v: i18n.get_language() and i18n.get_language_direction()
page_attributes(v) ==
    [ lang |-> i18n.current_language,
      dir |-> get_language_direction(i18n.current_language) ]

\* MindCareApp.render_page in a request of user v
render_page(v) ==
    /\ rendered' = [ rendered EXCEPT ![v] = page_attributes(v) ]
    /\ UNCHANGED <<chatVars, themeVars, storage_user, i18n, reports_page, wrapper>>

InitI18n ==
    /\ ChatbotClosed
    /\ theme_manager = ThemeManager_init
    /\ mindcare_app = [ current_theme |-> ThemeManager_init.current_theme ]
    /\ navbar = [ current_theme |-> ThemeManager_init.current_theme,
                  theme_preference |-> AUTO ]
    /\ \E stored \in [ Users -> StoredLanguages ] :
           storage_user = [ u \in Users |-> [ NoKeys EXCEPT !.language = stored[u] ] ]
    /\ i18n = I18nManager_init
    /\ rendered = [ u \in Users |-> [ lang |-> Unset, dir |-> Unset ] ]
    /\ reports_page = NoPage
    /\ wrapper = NoCall

NextI18n ==
    \/ \E u \in Users, language \in Languages : set_language(u, language)
    \/ \E ctx \in Contexts : load_language(ctx)
    \/ \E v \in Users : render_page(v)

SpecI18n == InitI18n /\ [][NextI18n]_vars

C29_LanguageIsPerUser ==
    [][ \A u \in Users, language \in Languages :
          set_language(u, language) =>
            \A v \in Users \ { u } : page_attributes(v)' = page_attributes(v) ]_vars

----------------------------------------------------------------------------
\* pages/reports.py ReportsPage
\*
\* A report is its type, its date and downloads, its title (as the place the
\* title has in alphabetical order) and the lower-case words of its title,
\* description, abstract and tags.  Lists of reports are sequences of ids.

\* self.items_per_page
items_per_page == 4

\* the keys of self.report_types and of self.sort_options
report_types == { "all", "research", "survey", "analysis", "white_paper" }
sort_options == { "newest", "oldest", "popular", "title" }

\* the published reports of the database
Report(id) ==
    CASE id = 1 -> [ type |-> "research", date |-> 5, downloads |-> 30, title |-> 4,
                     words |-> { "stress", "maroc" } ]
      [] id = 2 -> [ type |-> "research", date |-> 3, downloads |-> 90, title |-> 2,
                     words |-> { "maroc" } ]
      [] id = 3 -> [ type |-> "survey", date |-> 5, downloads |-> 10, title |-> 7,
                     words |-> { "stress" } ]
      [] id = 4 -> [ type |-> "research", date |-> 1, downloads |-> 30, title |-> 1,
                     words |-> { "sommeil" } ]
      [] id = 5 -> [ type |-> "white_paper", date |-> 2, downloads |-> 50, title |-> 9,
                     words |-> { "stress", "travail" } ]
      [] id = 6 -> [ type |-> "research", date |-> 4, downloads |-> 70, title |-> 3,
                     words |-> { "travail" } ]
      [] id = 7 -> [ type |-> "research", date |-> 6, downloads |-> 20, title |-> 8,
                     words |-> { "stress" } ]
      [] id = 8 -> [ type |-> "survey", date |-> 7, downloads |-> 60, title |-> 5,
                     words |-> { "maroc" } ]
      [] OTHER  -> [ type |-> "research", date |-> 8, downloads |-> 40, title |-> 6,
                     words |-> { "stress", "sommeil" } ]

\* what ReportService.get_all may return: no report (the list load_reports_from_db
\* also ends with when the database raises), or the published reports
SavedReports == { <<>>, <<1, 2, 3, 4, 5>>, <<1, 2, 3, 4, 5, 6, 7, 8, 9>> }

\* what may be typed into the search field
SearchQueries == { "", " ", "Stress", "maroc", "zzz" }

\* query.strip() is empty
blank(query) == query \in { "", " " }

\* query.lower()
lower(query) == IF query = "Stress" THEN "stress" ELSE query

\* the values the handlers may be called with: the keys, and one that is none
TypeInputs == report_types \cup { "guide" }
SortInputs == sort_options \cup { "random" }

\* [r for r in reports if keep(r)]
RECURSIVE of_type(_, _)
of_type(reports, type) ==
    IF reports = <<>> THEN <<>>
    ELSE IF Report(Head(reports)).type = type
    THEN <<Head(reports)>> \o of_type(Tail(reports), type)
    ELSE of_type(Tail(reports), type)

RECURSIVE matching(_, _)
matching(reports, word) ==
    IF reports = <<>> THEN <<>>
    ELSE IF word \in Report(Head(reports)).words
    THEN <<Head(reports)>> \o matching(Tail(reports), word)
    ELSE matching(Tail(reports), word)

\* search_reports: self.reports itself for a blank query
search_reports(reports, query) ==
    IF blank(query) THEN reports ELSE matching(reports, lower(query))

\* the key of list.sort for a sort option; reverse = True is the negated key,
\* equal keys keep their order either way
sort_key(id, sort_option) ==
    IF sort_option = "newest" THEN 0 - Report(id).date
    ELSE IF sort_option = "oldest" THEN Report(id).date
    ELSE IF sort_option = "popular" THEN 0 - Report(id).downloads
    ELSE IF sort_option = "title" THEN Report(id).title
    ELSE 0

\* list.sort(key): stable
sorted(reports, sort_option) ==
    LET n == Len(reports)
        key == [ i \in 1..n |-> sort_key(reports[i], sort_option) ]
        place == [ i \in 1..n |->
                     1 + Cardinality({ j \in 1..n :
                                         \/ key[j] < key[i]
                                         \/ key[j] = key[i] /\ j < i }) ]
    IN  [ r \in 1..n |-> reports[CHOOSE i \in 1..n : place[i] = r] ]

filter_reports_keeping_page(rp) ==
    LET by_type == IF rp.current_type # "all"
                   THEN of_type(rp.reports, rp.current_type) ELSE rp.reports
        found == search_reports(rp.reports, rp.search_query)
        filtered == IF rp.search_query # ""
                    THEN IF rp.current_type # "all"
                         THEN of_type(found, rp.current_type) ELSE found
                    ELSE by_type
        in_place == rp.search_query # "" /\ blank(rp.search_query)
                    /\ rp.current_type = "all"
        ordered == sorted(filtered, rp.current_sort)
    IN  [ rp EXCEPT !.filtered_reports = ordered,
                    !.reports = IF in_place THEN ordered ELSE @ ]

\* filter_reports: by type, by search, sorted, and back to page 1.  A query of
\* blanks makes search_reports return self.reports itself, which the sort then
\* orders in place when no type filter has copied it.
filter_reports(rp) ==
    LET by_type == IF rp.current_type # "all"
                   THEN of_type(rp.reports, rp.current_type) ELSE rp.reports
        found == search_reports(rp.reports, rp.search_query)
        filtered == IF rp.search_query # ""
                    THEN IF rp.current_type # "all"
                         THEN of_type(found, rp.current_type) ELSE found
                    ELSE by_type
        in_place == rp.search_query # "" /\ blank(rp.search_query)
                    /\ rp.current_type = "all"
        ordered == sorted(filtered, rp.current_sort)
    IN  [ rp EXCEPT !.filtered_reports = ordered,
                    !.reports = IF in_place THEN ordered ELSE @,
                    !.current_page = 1 ]

\* get_total_pages
get_total_pages(rp) ==
    LET pages == (Len(rp.filtered_reports) + items_per_page - 1) \div items_per_page
    IN  IF pages > 1 THEN pages ELSE 1

\* get_paginated_reports: the slice [start_idx:end_idx]
get_paginated_reports(rp) ==
    LET start_idx == (rp.current_page - 1) * items_per_page
        end_idx == start_idx + items_per_page
        last == IF end_idx < Len(rp.filtered_reports)
                THEN end_idx ELSE Len(rp.filtered_reports)
    IN  SubSeq(rp.filtered_reports, start_idx + 1, last)

reportsUnchanged == <<chatVars, themeVars, storage_user, i18nVars, wrapper>>

\* ReportsPage(): the route /reports builds the page
ReportsPage_init(db_reports) ==
    /\ ~ reports_page.constructed
    /\ reports_page' = filter_reports([ constructed |-> TRUE,
                                        reports |-> db_reports,
                                        filtered_reports |-> <<>>,
                                        current_page |-> 1,
                                        current_type |-> "all",
                                        current_sort |-> "newest",
                                        search_query |-> "" ])
    /\ UNCHANGED reportsUnchanged

change_page(new_page) ==
    /\ reports_page.constructed
    /\ reports_page' = IF 1 <= new_page /\ new_page <= get_total_pages(reports_page)
                       THEN [ reports_page EXCEPT !.current_page = new_page ]
                       ELSE reports_page
    /\ UNCHANGED reportsUnchanged

on_search_change(query) ==
    /\ reports_page.constructed
    /\ reports_page' = filter_reports([ reports_page EXCEPT !.search_query = query ])
    /\ UNCHANGED reportsUnchanged

\* the notification that ends the handler raises KeyError for a value that
\* is no key, after filter_reports
on_type_change(report_type) ==
    /\ reports_page.constructed
    /\ reports_page' = filter_reports([ reports_page EXCEPT !.current_type = report_type ])
    /\ UNCHANGED reportsUnchanged

on_sort_change(sort_option) ==
    /\ reports_page.constructed
    /\ reports_page' = filter_reports([ reports_page EXCEPT !.current_sort = sort_option ])
    /\ UNCHANGED reportsUnchanged

\* the type buttons of the sidebar
filter_by_type(report_type) ==
    /\ reports_page.constructed
    /\ reports_page' = filter_reports([ reports_page EXCEPT !.current_type = report_type ])
    /\ UNCHANGED reportsUnchanged

reset_filters ==
    /\ reports_page.constructed
    /\ reports_page' = filter_reports([ reports_page EXCEPT !.current_type = "all",
                                                            !.current_sort = "newest",
                                                            !.search_query = "",
                                                            !.current_page = 1 ])
    /\ UNCHANGED reportsUnchanged

\* the pages change_page may be asked for: those of the pager and the two
\* next to them
PageInputs ==
    IF reports_page.constructed THEN 0..(get_total_pages(reports_page) + 1) ELSE {}

InitReports == ChatbotClosed /\ SiteAtStart

NextReports ==
    \/ \E db_reports \in SavedReports : ReportsPage_init(db_reports)
    \/ \E new_page \in PageInputs : change_page(new_page)
    \/ \E query \in SearchQueries : on_search_change(query)
    \/ \E report_type \in TypeInputs : on_type_change(report_type)
    \/ \E sort_option \in SortInputs : on_sort_change(sort_option)
    \/ \E report_type \in report_types : filter_by_type(report_type)
    \/ reset_filters

SpecReports == InitReports /\ [][NextReports]_vars

\* C30: after any sequence of change_page, on_search_change, on_type_change,
\* on_sort_change, filter_by_type and reset_filters, 1 <= current_page <=
\* get_total_pages(); change_page with a page out of that range leaves the
\* page as it was; every change of filter, search or sort sets the page to 1;
\* and get_paginated_reports returns at most items_per_page reports.
FiltersOf(rp) == <<rp.current_type, rp.current_sort, rp.search_query>>

C30_PageStaysInRange ==
    /\ [] ( reports_page.constructed =>
              /\ 1 <= reports_page.current_page
              /\ reports_page.current_page <= get_total_pages(reports_page)
              /\ Len(get_paginated_reports(reports_page)) <= items_per_page )
    /\ [][ \A new_page \in PageInputs :
             ( /\ change_page(new_page)
               /\ ~ ( 1 <= new_page /\ new_page <= get_total_pages(reports_page) ) ) =>
               reports_page'.current_page = reports_page.current_page ]_vars
    /\ [][ ( /\ reports_page.constructed
              /\ FiltersOf(reports_page') # FiltersOf(reports_page) ) =>
             reports_page'.current_page = 1 ]_vars

\* the last of three pages is shown, with the one report left for it
C30_Witness ==
    /\ reports_page.constructed
    /\ get_total_pages(reports_page) = 3
    /\ reports_page.current_page = 3
    /\ Len(get_paginated_reports(reports_page)) = 1

====
